---- MODULE Spec2Model ----
(***************************************************************************)
(* Model of steamvr-lighthouse-control (src/src/main.rs).                  *)
(*                                                                         *)
(* Shared state: AppState behind one tokio Mutex (device_entries,          *)
(* ble_devices, error_state, scanner).  Activities: the render loop of     *)
(* main(), and inside ble_thread: start_scan (run once at boot and once    *)
(* per Command::StartScan), the event consumers it spawns, poll_task and   *)
(* cmd_task.  Every `.await` on the adapter (scanner.start, local_name,    *)
(* characteristic, read, write_command) is a state of its own ("in         *)
(* flight"), so that what is held while the call is pending is visible.    *)
(***************************************************************************)
EXTENDS Integers, Sequences, FiniteSets, TLC

\* ---------------------------------------------------------------- bounds
\* Total number of commands the front end enqueues in one run.
MaxCmds == 3
\* Number of refresh clicks (Command::StartScan) among them.
MaxRestarts == 1
\* Capacity of the command channel.  main.rs:41 creates it with 16 slots;
\* the model scales the capacity down, the behaviour of a full channel is
\* the same for every finite capacity.
ChannelCapacity == 2

\* ------------------------------------------------------------ value sets
\* BDAddr keys; in_range holds the ones in radio range in a run
Addrs == {"A", "B"}
\* Option<String> returned by Device::local_name
NoName == "?"
Names == {NoName, "Base1", "Base1-renamed"}
PowerStates == {"On", "Standby", "Sleep", "Starting", "Unknown"}
PowerStateCommands == {"On", "Sleep", "Standby"}
\* payloads a characteristic read may return
Payloads == {<< >>, <<0>>, <<1>>, <<2>>, <<7>>, <<9>>, <<11>>, <<1, 1>>}

NoAddr == "-"
\* enum Command; seq is history: the position of the command among all
\* commands sent (0 until it is sent)
NoCmd == [type |-> "none", addr |-> NoAddr, state |-> "-", seq |-> 0]
StartScanCmd == [type |-> "StartScan", addr |-> NoAddr, state |-> "-", seq |-> 0]
ChangePowerState(a, s) == [type |-> "ChangePowerState", addr |-> a, state |-> s, seq |-> 0]

VARIABLES
    device_entries,  \* AppState.device_entries : addr -> [name, power_state]
    ble_devices,     \* AppState.ble_devices    : addr -> device handle
    error_state,     \* AppState.error_state    : "None" | "StartFailed"
    scanner_active,  \* Scanner::is_active()
    session,         \* a discovery session was started: events may arrive
    staleEvents,     \* history: events received before the latest clear of
                     \* the maps may still wait for the guard
    in_range,        \* the devices that answer a scan (fixed in a run)
    lock,            \* holder of the Mutex<AppState>: "none", "ui", "cmd", "consumer"
                     \* (poll_task takes and drops it within one step)
    cmd_queue,       \* contents of the mpsc channel
    cmdPc, cmd, scanOk, booted,       \* ble_thread / cmd_task
    consumers,       \* number of consumer tasks spawned by start_scan
    consumer,        \* the consumer that is processing an event
    pollPc, pollDevices, pollAddr, pollState,   \* poll_task
    pollFailed,      \* history: devices whose lookup or read failed in this cycle
    uiPc, uiPending,  \* render loop
    sentCount, restartCount, startCount, doneCount,   \* history
    lastStart, prevStart,
    codec_pc, codec_cmd, codec_in, codec_out    \* the codec on its own

storeVars == <<device_entries, ble_devices, error_state>>
adapterVars == <<scanner_active, session, staleEvents>>
cmdVars == <<cmdPc, cmd, scanOk, booted>>
pollVars == <<pollPc, pollDevices, pollAddr, pollState, pollFailed>>
uiVars == <<uiPc, uiPending>>
histVars == <<sentCount, restartCount, startCount, doneCount, lastStart, prevStart>>
codecVars == <<codec_pc, codec_cmd, codec_in, codec_out>>
fixedVars == <<in_range, codec_pc, codec_cmd, codec_in, codec_out>>
vars == <<device_entries, ble_devices, error_state, scanner_active, session,
          staleEvents, in_range,
          lock, cmd_queue, cmdPc, cmd, scanOk, booted, consumers, consumer,
          pollPc, pollDevices, pollAddr, pollState, pollFailed,
          uiPc, uiPending,
          sentCount, restartCount, startCount, doneCount, lastStart, prevStart,
          codec_pc, codec_cmd, codec_in, codec_out>>

EmptyMap == << >>
MapPut(m, k, v) == [x \in (DOMAIN m) \cup {k} |-> IF x = k THEN v ELSE m[x]]

\* ----------------------------------------------------------- pure code
\* a decoder without the second pattern of the On arm
Decode_without_0B(data) ==
    IF data = <<0>> THEN "Sleep"
    ELSE IF data = <<1>> THEN "On"
    ELSE IF data = <<2>> THEN "Standby"
    ELSE IF data = <<9>> THEN "Starting"
    ELSE "Unknown"

\* impl From<&[u8]> for PowerState
Decode(data) ==
    IF data = <<0>> THEN "Sleep"
    ELSE IF data = <<1>> \/ data = <<11>> THEN "On"
    ELSE IF data = <<2>> THEN "Standby"
    ELSE IF data = <<9>> THEN "Starting"
    ELSE "Unknown"

\* an encoder with the bytes of Sleep and Standby exchanged
Encode_swapped(c) ==
    IF c = "On" THEN 1 ELSE IF c = "Sleep" THEN 2 ELSE 0

\* impl From<PowerStateCommand> for u8
Encode(c) ==
    IF c = "On" THEN 1 ELSE IF c = "Sleep" THEN 0 ELSE 2

\* a write that inserts the entry when there is none
update_power_state_upsert(entries, a, power) ==
    MapPut(entries, a, [name |-> NoName, power_state |-> power])

\* AppState::update_power_state
update_power_state(entries, a, power) ==
    IF a \in DOMAIN entries
    THEN [entries EXCEPT ![a].power_state = power]
    ELSE entries

\* AppState::insert_device, first insert: the Device Entry
insert_entry(entries, a, nm) ==
    MapPut(entries, a, [name |-> nm, power_state |-> "Unknown"])

\* AppState::insert_device, second insert: the handle
Device(a) == <<"device", a>>
insert_handle(devs, a) == MapPut(devs, a, Device(a))

\* the program after construction (AppState::new, main, ble_thread entry)
InitProgram ==
    /\ device_entries = EmptyMap
    /\ ble_devices = EmptyMap
    /\ error_state = "None"
    /\ scanner_active = FALSE
    /\ session = FALSE
    /\ staleEvents = FALSE
    /\ lock = "none"
    /\ cmd_queue = << >>
    /\ cmdPc = "scan_lock"
    /\ cmd = NoCmd
    /\ scanOk = FALSE
    /\ booted = FALSE
    /\ consumers = 0
    /\ consumer = [pc |-> "next", kind |-> "-", addr |-> NoAddr, stale |-> FALSE]
    /\ pollPc = "off"
    /\ pollDevices = {}
    /\ pollAddr = NoAddr
    /\ pollState = "Unknown"
    /\ pollFailed = {}
    /\ uiPc = "idle"
    /\ uiPending = NoCmd
    /\ sentCount = 0
    /\ restartCount = 0
    /\ startCount = 0
    /\ doneCount = 0
    /\ lastStart = "none"
    /\ prevStart = "none"

\* the codec is not exercised on its own
CodecOff ==
    /\ codec_pc = "off"
    /\ codec_cmd = "-"
    /\ codec_in = << >>
    /\ codec_out = "-"

\* one device in range, an operator who clicks
Init ==
    /\ InitProgram
    /\ in_range = {"A"}
    /\ CodecOff


\* ------------------------------------------------ start_scan (main.rs:126)
\* a start_scan that forgets ble_devices.clear()
cleared_devices_kept(devs) == devs

\* AppState::start_scan, lines 86-87: both maps are cleared
cleared_entries(entries) == EmptyMap
cleared_devices(devs) == EmptyMap

\* a start_scan without the else branch: a successful start clears nothing
scan_error_state_sticky(cur, ok) == IF ok THEN cur ELSE "StartFailed"

\* start_scan, lines 127-131: the error state after a start attempt, from
\* the one before it (cur) and the result of the start
scan_error_state(cur, ok) == IF ok THEN "None" ELSE "StartFailed"

\* start_scan, lines 133-135: the consumer task is spawned, whatever the
\* result of the start was
spawns_consumer(ok) == TRUE

\* `app_state.lock().await.start_scan()`: the guard is taken, both maps are
\* cleared and scanner.start(..) is called; the guard is a temporary of the
\* whole condition expression and lives until start has returned.
ScanLock ==
    /\ cmdPc = "scan_lock"
    /\ lock = "none"
    /\ lock' = "cmd"
    /\ device_entries' = cleared_entries(device_entries)
    /\ ble_devices' = cleared_devices(ble_devices)
    /\ cmdPc' = "scan_start"
    /\ staleEvents' = (session /\ consumers > 0)
    /\ UNCHANGED <<error_state, scanner_active, session, cmd_queue, cmd, scanOk, booted,
                   consumers, consumer, pollVars, uiVars, histVars>>
    /\ UNCHANGED fixedVars

\* scanner.start(..).await returns Ok or Err; the guard is dropped.
ScanStartReturns(ok) ==
    /\ cmdPc = "scan_start"
    /\ scanOk' = ok
    /\ scanner_active' = ok
    /\ session' = (session \/ ok)
    /\ lock' = "none"
    /\ cmdPc' = "scan_result"
    /\ lastStart' = IF ok THEN "ok" ELSE "err"
    /\ prevStart' = lastStart
    /\ UNCHANGED <<storeVars, staleEvents, cmd_queue, cmd, booted, consumers, consumer,
                   pollVars, uiVars, sentCount, restartCount, startCount, doneCount>>
    /\ UNCHANGED fixedVars

\* `app_state.lock().await.error_state = ..` (one statement, one lock hold)
ScanRecordResult ==
    /\ cmdPc = "scan_result"
    /\ lock = "none"
    /\ error_state' = scan_error_state(error_state, scanOk)
    /\ cmdPc' = "scan_stream"
    /\ UNCHANGED <<device_entries, ble_devices, adapterVars, lock, cmd_queue,
                   cmd, scanOk, booted, consumers, consumer, pollVars, uiVars, histVars>>
    /\ UNCHANGED fixedVars

\* `app_state.lock().await.scanner.device_event_stream()` and the spawn of
\* the consumer; start_scan returns.  At boot ble_thread then spawns
\* poll_task and cmd_task; in cmd_task the command is finished.
ScanSpawn ==
    /\ cmdPc = "scan_stream"
    /\ lock = "none"
    /\ consumers' = IF spawns_consumer(scanOk) THEN consumers + 1 ELSE consumers
    /\ cmdPc' = "recv"
    /\ cmd' = NoCmd
    /\ booted' = TRUE
    /\ pollPc' = IF booted THEN pollPc ELSE "snapshot"
    /\ doneCount' = IF booted THEN doneCount + 1 ELSE doneCount
    /\ UNCHANGED <<storeVars, adapterVars, lock, cmd_queue, scanOk, consumer,
                   pollDevices, pollAddr, pollState, pollFailed, uiVars,
                   sentCount, restartCount, startCount, lastStart, prevStart>>
    /\ UNCHANGED fixedVars

\* stop_after_timeout(SCAN_TIMEOUT): the scanner stops by itself
ScanTimeout ==
    /\ scanner_active
    /\ scanner_active' = FALSE
    /\ UNCHANGED <<storeVars, session, staleEvents, lock, cmd_queue, cmdVars,
                   consumers, consumer, pollVars, uiVars, histVars>>
    /\ UNCHANGED fixedVars

\* ------------------------------------------- event consumer (main.rs:135)
\* The spawned consumers run the same loop on clones of one event source
\* and keep nothing between two events, so they are counted (consumers);
\* one that has received an event needs the guard to go on, and the one
\* that holds it is `consumer`.
Idle == [pc |-> "next", kind |-> "-", addr |-> NoAddr, stale |-> FALSE]
\* stale is history: the event was received before the latest clear
At(pc, kind, a, stale) == [pc |-> pc, kind |-> kind, addr |-> a, stale |-> stale]

\* event_stream.next().await yields Discovered(device): the guard is taken
\* and insert_device is called; its first await is device.local_name(),
\* pending while the guard is held.  (Receiving the event and waiting for
\* the guard touch nothing shared and are folded into this step; an event
\* that was received while start_scan held the guard for a restart, i.e.
\* before the maps were cleared, is a stale one.)
DiscoveredLock(a, stale) ==
    /\ consumers > 0
    /\ session
    /\ a \in in_range
    /\ stale => staleEvents
    /\ lock = "none"
    /\ lock' = "consumer"
    /\ consumer' = At("name", "Discovered", a, stale)
    /\ UNCHANGED <<storeVars, adapterVars, cmd_queue, cmdVars, consumers,
                   pollVars, uiVars, histVars>>
    /\ UNCHANGED fixedVars

\* local_name() returns; device_entries.insert (lines 104-110)
DiscoveredInsertEntry(nm) ==
    /\ consumer.pc = "name"
    /\ consumer.kind = "Discovered"
    /\ device_entries' = insert_entry(device_entries, consumer.addr, nm)
    /\ consumer' = At("handle", "Discovered", consumer.addr, consumer.stale)
    /\ UNCHANGED <<ble_devices, error_state, adapterVars, lock, cmd_queue,
                   cmdVars, consumers, pollVars, uiVars, histVars>>
    /\ UNCHANGED fixedVars

\* ble_devices.insert (line 112); the guard is dropped
DiscoveredInsertHandle ==
    /\ consumer.pc = "handle"
    /\ ble_devices' = insert_handle(ble_devices, consumer.addr)
    /\ lock' = "none"
    /\ consumer' = Idle
    /\ UNCHANGED <<device_entries, error_state, adapterVars, cmd_queue,
                   cmdVars, consumers, pollVars, uiVars, histVars>>
    /\ UNCHANGED fixedVars

\* line 146-150: device_entries.get_mut(&device.address()) is Some
updated_entry_exists(entries, a) == a \in DOMAIN entries

\* Updated: `if let Some(d) = app_state.lock().await.device_entries.get_mut(..)`.
\* With an entry the guard lives through the body, where local_name() is
\* awaited; without one the guard is dropped at once.
UpdatedLock(a) ==
    /\ consumers > 0
    /\ session
    /\ a \in in_range
    /\ lock = "none"
    /\ IF updated_entry_exists(device_entries, a)
       THEN /\ lock' = "consumer"
            /\ consumer' = At("name", "Updated", a, FALSE)
       ELSE /\ lock' = lock
            /\ consumer' = consumer
    /\ UNCHANGED <<storeVars, adapterVars, cmd_queue, cmdVars, consumers,
                   pollVars, uiVars, histVars>>
    /\ UNCHANGED fixedVars

\* a name update that writes a fresh entry
update_name_replace(entries, a, nm) ==
    MapPut(entries, a, [name |-> nm, power_state |-> "Unknown"])

\* d.name = device.local_name().await (line 152)
update_name(entries, a, nm) == [entries EXCEPT ![a].name = nm]

UpdatedSetName(nm) ==
    /\ consumer.pc = "name"
    /\ consumer.kind = "Updated"
    /\ device_entries' = update_name(device_entries, consumer.addr, nm)
    /\ lock' = "none"
    /\ consumer' = Idle
    /\ UNCHANGED <<ble_devices, error_state, adapterVars, cmd_queue, cmdVars,
                   consumers, pollVars, uiVars, histVars>>
    /\ UNCHANGED fixedVars

\* ------------------------------------------------- poll_task (main.rs:227)
\* a guard that is bound to a name and lives on after the clone
lock_after_snapshot_held == "poll"

\* line 229: the guard is a temporary of the statement that clones the
\* map: the lock is free again when the statement ends
lock_after_snapshot == "none"

\* line 229: `app_state.lock().await.ble_devices.clone()`, one statement
PollSnapshot ==
    /\ pollPc = "snapshot"
    /\ lock = "none"
    /\ pollDevices' = DOMAIN ble_devices
    /\ pollPc' = "next"
    /\ lock' = lock_after_snapshot
    /\ UNCHANGED <<storeVars, adapterVars, cmd_queue, cmdVars, consumers, consumer,
                   pollAddr, pollState, pollFailed, uiVars, histVars>>
    /\ UNCHANGED fixedVars

\* line 231: the next (addr, device) of the copy, in the map's own order;
\* line 232: device.characteristic(POWER_UUID) is called
PollNextDevice(a) ==
    /\ pollPc = "next"
    /\ a \in pollDevices
    /\ pollDevices' = pollDevices \ {a}
    /\ pollAddr' = a
    /\ pollPc' = "characteristic"
    /\ UNCHANGED <<storeVars, adapterVars, lock, cmd_queue, cmdVars, consumers, consumer,
                   pollState, pollFailed, uiVars, histVars>>
    /\ UNCHANGED fixedVars

\* a failure that ends the cycle
devices_after_failure_break(left) == {}

\* lines 232-233: an `if let` that does not match is skipped; the for loop
\* goes on with the devices that are left
devices_after_failure(left) == left

\* line 232: the lookup returns Ok(Some(power)) or anything else
PollCharacteristic(found) ==
    /\ pollPc = "characteristic"
    /\ pollPc' = IF found THEN "read" ELSE "next"
    /\ pollAddr' = IF found THEN pollAddr ELSE NoAddr
    /\ pollFailed' = IF found THEN pollFailed ELSE pollFailed \cup {pollAddr}
    /\ pollDevices' = IF found THEN pollDevices ELSE devices_after_failure(pollDevices)
    /\ UNCHANGED <<storeVars, adapterVars, lock, cmd_queue, cmdVars, consumers, consumer,
                   pollState, uiVars, histVars>>
    /\ UNCHANGED fixedVars

\* a poll loop without the test of line 236
poll_writes_always(state) == TRUE

\* line 236: only a decoded state other than Unknown is written
poll_writes(state) == state /= "Unknown"

\* lines 233-236: power.read() returns Ok(data) or Err; data is decoded.
\* (pollAddr stays set after a read that decoded to a state that is not
\* written, until the loop goes on: it is the device just skipped.)
PollRead(ok, data) ==
    /\ pollPc = "read"
    /\ IF ok /\ poll_writes(Decode(data))
       THEN /\ pollState' = Decode(data)
            /\ pollPc' = "write"
            /\ pollAddr' = pollAddr
       ELSE /\ pollState' = "Unknown"
            /\ pollPc' = "next"
            /\ pollAddr' = IF ok THEN pollAddr ELSE NoAddr
    /\ pollFailed' = IF ok THEN pollFailed ELSE pollFailed \cup {pollAddr}
    /\ pollDevices' = IF ok THEN pollDevices ELSE devices_after_failure(pollDevices)
    /\ UNCHANGED <<storeVars, adapterVars, lock, cmd_queue, cmdVars, consumers, consumer,
                   uiVars, histVars>>
    /\ UNCHANGED fixedVars

\* lines 237-239: lock, get_mut(&addr), d.power_state = state, unlock
PollWrite ==
    /\ pollPc = "write"
    /\ lock = "none"
    /\ device_entries' = update_power_state(device_entries, pollAddr, pollState)
    /\ pollPc' = "next"
    /\ pollAddr' = NoAddr
    /\ pollState' = "Unknown"
    /\ UNCHANGED <<ble_devices, error_state, adapterVars, lock, cmd_queue,
                   cmdVars, consumers, consumer, pollDevices, pollFailed, uiVars, histVars>>
    /\ UNCHANGED fixedVars

\* line 245: the copy is exhausted; sleep(STATE_POLL_INTERVAL)
PollSleep ==
    /\ pollPc = "next"
    /\ pollDevices = {}
    /\ pollPc' = "sleep"
    /\ pollAddr' = NoAddr
    /\ pollFailed' = {}
    /\ UNCHANGED <<storeVars, adapterVars, lock, cmd_queue, cmdVars, consumers, consumer,
                   pollDevices, pollState, uiVars, histVars>>
    /\ UNCHANGED fixedVars

PollWake ==
    /\ pollPc = "sleep"
    /\ pollPc' = "snapshot"
    /\ UNCHANGED <<storeVars, adapterVars, lock, cmd_queue, cmdVars, consumers, consumer,
                   pollDevices, pollAddr, pollState, pollFailed, uiVars, histVars>>
    /\ UNCHANGED fixedVars

\* -------------------------------------------------- cmd_task (main.rs:253)
\* a channel that hands out the newest command first
recv_newest(q) == <<q[Len(q)], SubSeq(q, 1, Len(q) - 1)>>

\* cmd_rx.recv(): the oldest command of the channel
recv(q) == <<Head(q), Tail(q)>>

\* line 254: a command is received and matched
CmdRecv ==
    /\ cmdPc = "recv"
    /\ cmd_queue /= << >>
    /\ cmd' = recv(cmd_queue)[1]
    /\ cmd_queue' = recv(cmd_queue)[2]
    /\ startCount' = startCount + 1
    /\ cmdPc' = IF cmd'.type = "StartScan" THEN "scan_lock" ELSE "cps_lock"
    /\ UNCHANGED <<storeVars, adapterVars, lock, scanOk, booted, consumers, consumer,
                   pollVars, uiVars, sentCount, restartCount, doneCount, lastStart, prevStart>>
    /\ UNCHANGED fixedVars

\* line 260: `if let Some(device) = app_state.lock().await.ble_devices.get(&addr)`.
\* With a handle the guard lives through the body (lines 261-265), where the
\* characteristic lookup and the write are awaited; without one the guard is
\* dropped and the command is finished.
CpsLock ==
    /\ cmdPc = "cps_lock"
    /\ lock = "none"
    /\ IF cmd.addr \in DOMAIN ble_devices
       THEN /\ lock' = "cmd"
            /\ cmdPc' = "cps_characteristic"
            /\ UNCHANGED <<cmd, doneCount>>
       ELSE /\ lock' = lock
            /\ cmdPc' = "recv"
            /\ cmd' = NoCmd
            /\ doneCount' = doneCount + 1
    /\ UNCHANGED <<storeVars, adapterVars, cmd_queue, scanOk, booted, consumers, consumer,
                   pollVars, uiVars, sentCount, restartCount, startCount, lastStart, prevStart>>
    /\ UNCHANGED fixedVars

\* line 261: the lookup returns Ok(Some(power)) or anything else
CpsCharacteristic(found) ==
    /\ cmdPc = "cps_characteristic"
    /\ IF found
       THEN /\ cmdPc' = "cps_write"
            /\ UNCHANGED <<lock, cmd, doneCount>>
       ELSE /\ cmdPc' = "recv"
            /\ lock' = "none"
            /\ cmd' = NoCmd
            /\ doneCount' = doneCount + 1
    /\ UNCHANGED <<storeVars, adapterVars, cmd_queue, scanOk, booted, consumers, consumer,
                   pollVars, uiVars, sentCount, restartCount, startCount, lastStart, prevStart>>
    /\ UNCHANGED fixedVars

\* a dispatcher that records the commanded state once the write succeeded
entries_after_write_recorded(entries, a, state, ok) ==
    IF ok THEN update_power_state(entries, a, state) ELSE entries

\* lines 262-264: what the result of write_command does to the entries:
\* an Err is printed, an Ok is dropped
entries_after_write(entries, a, state, ok) == entries

\* lines 262-264: power.write_command(&[state.into()]) returns Ok or Err
CpsWrite(ok) ==
    /\ cmdPc = "cps_write"
    /\ device_entries' = entries_after_write(device_entries, cmd.addr, cmd.state, ok)
    /\ cmdPc' = "recv"
    /\ lock' = "none"
    /\ cmd' = NoCmd
    /\ doneCount' = doneCount + 1
    /\ UNCHANGED <<ble_devices, error_state, adapterVars, cmd_queue, scanOk,
                   booted, consumers, consumer, pollVars, uiVars, sentCount, restartCount, startCount, lastStart, prevStart>>
    /\ UNCHANGED fixedVars


\* ------------------------------------------------ render loop (main.rs:49)
\* the operator clicks at most MaxCmds times, MaxRestarts of them on refresh
\* MaxCmds bounds the commands that enter the queue; one more click is
\* followed as far as its send waits on the full queue.
MayClick ==
    \/ sentCount < MaxCmds
    \/ sentCount = MaxCmds /\ Len(cmd_queue) >= ChannelCapacity
MayClickRefresh == MayClick /\ restartCount < MaxRestarts

\* ui_device_entry: the buttons in the order they are laid out
Buttons == 1 .. 3
\* buttons that only look at the state they would set
button_enabled_unknown_too(btn, power_state) ==
    IF btn = 1 THEN power_state # "Standby"
    ELSE IF btn = 2 THEN power_state # "Sleep"
    ELSE power_state \in {"Sleep", "Standby", "Unknown"}

\* lines 311, 324, 337: add_enabled(..) of "stand by", "sleep", "on"
button_enabled(btn, power_state) ==
    IF btn = 1 THEN power_state \notin {"Standby", "Unknown"}
    ELSE IF btn = 2 THEN power_state \notin {"Sleep", "Unknown"}
    ELSE power_state \in {"Sleep", "Standby"}

\* a click handler that shows On at once instead of Starting
clicked_state_on(btn) ==
    IF btn = 1 THEN "Standby" ELSE IF btn = 2 THEN "Sleep" ELSE "On"

\* lines 316, 329, 342: device.power_state = .. in the click handler
clicked_state(btn) ==
    IF btn = 1 THEN "Standby" ELSE IF btn = 2 THEN "Sleep" ELSE "Starting"
\* lines 318, 331, 344: the command that is sent
button_command(btn) ==
    IF btn = 1 THEN "Standby" ELSE IF btn = 2 THEN "Sleep" ELSE "On"
\* line 371: add_enabled(!app_state.scanner.is_active(), ..)
refresh_enabled(active) == ~active

\* line 53: app_state.blocking_lock(); the guard lives to the end of the
\* closure, i.e. through ui_header and ui_device_list
UiLock ==
    /\ uiPc = "idle"
    /\ lock = "none"
    /\ lock' = "ui"
    /\ uiPc' = "render"
    /\ UNCHANGED <<storeVars, adapterVars, cmd_queue, cmdVars, consumers, consumer,
                   pollVars, uiPending, histVars>>
    /\ UNCHANGED fixedVars

\* the click handler's write to the entry (lines 316, 329, 342)
entries_after_click(entries, a, btn) ==
    [entries EXCEPT ![a].power_state = clicked_state(btn)]

\* A frame in which no enabled button reports clicked(): ui_header and
\* ui_device_list only read, the closure ends (line 60), the guard is dropped.
UiRenderIdle ==
    /\ uiPc = "render"
    /\ lock' = "none"
    /\ uiPc' = "idle"
    /\ UNCHANGED <<storeVars, adapterVars, cmd_queue, cmdVars, consumers, consumer,
                   pollVars, uiPending, histVars>>
    /\ UNCHANGED fixedVars

\* ui_header, lines 370-375: the refresh button reports clicked()
UiClickRefresh ==
    /\ uiPc = "render"
    /\ MayClickRefresh
    /\ refresh_enabled(scanner_active)
    /\ uiPending' = StartScanCmd
    /\ uiPc' = "send"
    /\ UNCHANGED <<storeVars, adapterVars, lock, cmd_queue, cmdVars, consumers, consumer,
                   pollVars, histVars>>
    /\ UNCHANGED fixedVars

\* ui_device_list / ui_device_entry, lines 283-346: button btn of the entry
\* of address a reports clicked().  `power_state` (line 290) is the entry's
\* state, which nothing changes during the frame before this button is drawn.
UiClickButton(a, btn) ==
    /\ uiPc = "render"
    /\ MayClick
    /\ a \in DOMAIN device_entries
    /\ button_enabled(btn, device_entries[a].power_state)
    /\ device_entries' = entries_after_click(device_entries, a, btn)
    /\ uiPending' = ChangePowerState(a, button_command(btn))
    /\ uiPc' = "send"
    /\ UNCHANGED <<ble_devices, error_state, adapterVars, lock, cmd_queue,
                   cmdVars, consumers, consumer, pollVars, histVars>>
    /\ UNCHANGED fixedVars

\* cmd_tx.blocking_send(..): returns once the channel has a free slot
send_ready(q) == Len(q) < ChannelCapacity

\* blocking_send returns; the rest of the frame only reads; the closure
\* ends (line 60) and the guard is dropped
UiSend ==
    /\ uiPc = "send"
    /\ send_ready(cmd_queue)
    /\ sentCount < MaxCmds
    /\ cmd_queue' = Append(cmd_queue, [uiPending EXCEPT !.seq = sentCount + 1])
    /\ sentCount' = sentCount + 1
    /\ restartCount' = IF uiPending.type = "StartScan"
                       THEN restartCount + 1 ELSE restartCount
    /\ uiPending' = NoCmd
    /\ lock' = "none"
    /\ uiPc' = "idle"
    /\ UNCHANGED <<storeVars, adapterVars, cmdVars, consumers, consumer, pollVars,
                   startCount, doneCount, lastStart, prevStart>>
    /\ UNCHANGED fixedVars

\* ---------------------------------------------------------- specification
Next ==
    \/ ScanLock
    \/ \E ok \in BOOLEAN : ScanStartReturns(ok)
    \/ ScanRecordResult
    \/ ScanSpawn
    \/ ScanTimeout
    \/ \E a \in Addrs, stale \in BOOLEAN : DiscoveredLock(a, stale)
    \/ \E nm \in Names : DiscoveredInsertEntry(nm)
    \/ DiscoveredInsertHandle
    \/ \E a \in Addrs : UpdatedLock(a)
    \/ \E nm \in Names : UpdatedSetName(nm)
    \/ PollSnapshot
    \/ \E a \in Addrs : PollNextDevice(a)
    \/ \E found \in BOOLEAN : PollCharacteristic(found)
    \/ \E ok \in BOOLEAN, data \in Payloads : PollRead(ok, data)
    \/ PollWrite
    \/ PollSleep
    \/ PollWake
    \/ CmdRecv
    \/ CpsLock
    \/ \E found \in BOOLEAN : CpsCharacteristic(found)
    \/ \E ok \in BOOLEAN : CpsWrite(ok)
    \/ UiLock
    \/ UiRenderIdle
    \/ UiClickRefresh
    \/ \E a \in Addrs, btn \in Buttons : UiClickButton(a, btn)
    \/ UiSend

Spec == Init /\ [][Next]_vars

\* --------------------------------------- two devices, nobody at the window
\* Two lighthouses answer the scan and the operator only watches: the
\* frames are rendered, no button is clicked, so cmd_task stays in recv.
InitTwoDevices ==
    /\ InitProgram
    /\ in_range = {"A", "B"}
    /\ CodecOff

NextTwoDevices ==
    \/ ScanLock
    \/ \E ok \in BOOLEAN : ScanStartReturns(ok)
    \/ ScanRecordResult
    \/ ScanSpawn
    \/ ScanTimeout
    \/ \E a \in Addrs, stale \in BOOLEAN : DiscoveredLock(a, stale)
    \/ \E nm \in Names : DiscoveredInsertEntry(nm)
    \/ DiscoveredInsertHandle
    \/ \E a \in Addrs : UpdatedLock(a)
    \/ \E nm \in Names : UpdatedSetName(nm)
    \/ PollSnapshot
    \/ \E a \in Addrs : PollNextDevice(a)
    \/ \E found \in BOOLEAN : PollCharacteristic(found)
    \/ \E ok \in BOOLEAN, data \in Payloads : PollRead(ok, data)
    \/ PollWrite
    \/ PollSleep
    \/ PollWake
    \/ UiLock
    \/ UiRenderIdle

SpecTwoDevices == InitTwoDevices /\ [][NextTwoDevices]_vars

\* The same with the scheduling the runtime gives: a task that can run is
\* run and a pending adapter call returns (weak fairness on the steps that
\* need no lock and on the steps that end a lock hold), and the tokio Mutex
\* serves its waiters in order, so poll_task gets the lock when it is free
\* again and again (strong fairness on its statements under the lock).
FairTwoDevices ==
    /\ SpecTwoDevices
    /\ WF_vars(\E a \in Addrs : PollNextDevice(a))
    /\ WF_vars(\E found \in BOOLEAN : PollCharacteristic(found))
    /\ WF_vars(\E ok \in BOOLEAN, data \in Payloads : PollRead(ok, data))
    /\ WF_vars(PollSleep)
    /\ WF_vars(PollWake)
    /\ SF_vars(PollWrite)
    /\ SF_vars(PollSnapshot)
    /\ WF_vars(UiRenderIdle)
    /\ WF_vars(\E ok \in BOOLEAN : ScanStartReturns(ok))
    /\ WF_vars(\E nm \in Names : DiscoveredInsertEntry(nm))
    /\ WF_vars(DiscoveredInsertHandle)
    /\ WF_vars(\E nm \in Names : UpdatedSetName(nm))

\* ------------------------------------------------------ the codec alone
\* The two conversions of the power characteristic, applied to every input
\* of the bounded sets below; the rest of the program stands still.
MaxPayloadLen == 3
Bytes == 0 .. 255
\* bytes of the payloads that are longer than one byte
TailBytes == {0, 1, 2, 9, 11, 255}
CodecPayloads ==
    {<< >>} \cup {<<b>> : b \in Bytes}
            \cup UNION {[1 .. n -> TailBytes] : n \in 2 .. MaxPayloadLen}

InitCodec ==
    /\ InitProgram
    /\ in_range = {}
    /\ codec_out = "-"
    /\ \/ /\ codec_pc = "command"
          /\ codec_cmd \in PowerStateCommands
          /\ codec_in = << >>
       \/ /\ codec_pc = "payload"
          /\ codec_cmd = "-"
          /\ codec_in \in CodecPayloads

\* line 262: `&[state.into()]`, the one-byte payload of a command
CodecEncode ==
    /\ codec_pc = "command"
    /\ codec_in' = <<Encode(codec_cmd)>>
    /\ codec_pc' = "payload"
    /\ UNCHANGED <<storeVars, adapterVars, in_range, lock, cmd_queue, cmdVars, consumers,
                   consumer, pollVars, uiVars, histVars, codec_cmd, codec_out>>

\* line 234: `PowerState::from(data.as_slice())`
CodecDecode ==
    /\ codec_pc = "payload"
    /\ codec_out' = Decode(codec_in)
    /\ codec_pc' = "done"
    /\ UNCHANGED <<storeVars, adapterVars, in_range, lock, cmd_queue, cmdVars, consumers,
                   consumer, pollVars, uiVars, histVars, codec_cmd, codec_in>>

NextCodec ==
    \/ CodecEncode
    \/ CodecDecode

SpecCodec == InitCodec /\ [][NextCodec]_vars


\* ------------------------------------------------------------ properties
\* An adapter call of the task is pending
CmdAdapterCall == cmdPc \in {"scan_start", "cps_characteristic", "cps_write"}
ConsumerAdapterCall == consumer.pc = "name"
PollAdapterCall == pollPc \in {"characteristic", "read"}

\* C1: no task holds the Store lock while one of its adapter calls
\* (discovery start, name lookup, characteristic lookup, read, write) is
\* pending.
C1_NoLockAcrossAdapterCall ==
    /\ CmdAdapterCall => lock /= "cmd"
    /\ ConsumerAdapterCall => lock /= "consumer"
    /\ PollAdapterCall => lock /= "poll"

\* C2: the dispatcher executes the commands in the order they were sent, one
\* at a time: the command in execution is the one sent right after the last
\* finished one, and the channel holds the ones sent after it, in order.
C2_CommandsInOrder ==
    /\ cmd = NoCmd => startCount = doneCount
    /\ cmd /= NoCmd => (startCount = doneCount + 1 /\ cmd.seq = startCount)
    /\ \A k \in DOMAIN cmd_queue : cmd_queue[k].seq = startCount + k
    /\ startCount + Len(cmd_queue) = sentCount

\* a third command is in execution after two finished ones, of both kinds
C2_Witness ==
    /\ doneCount >= 2
    /\ cmd.type = "ChangePowerState"
    /\ restartCount >= 1

\* C3: whenever no writer holds the lock, the handle map and the entry map
\* have the same keys.
C3_SameKeys ==
    lock \in {"none", "ui"} => DOMAIN ble_devices = DOMAIN device_entries

\* a device is known after a restart has run
C3_Witness ==
    /\ lock = "none"
    /\ consumers >= 2
    /\ DOMAIN ble_devices = {"A"}
    /\ DOMAIN device_entries = {"A"}

\* a step of poll_task
PollStep == pollPc' /= pollPc

\* C4: no step of the poll loop removes an entry or changes one to Unknown:
\* what it writes is a decoded state other than Unknown, and a read that
\* decodes to Unknown leaves the entries as they are.
C4_PollNeverWritesUnknown ==
    [][PollStep =>
        /\ DOMAIN device_entries' = DOMAIN device_entries
        /\ \A a \in DOMAIN device_entries :
              \/ device_entries'[a] = device_entries[a]
              \/ device_entries'[a].power_state /= "Unknown"
        /\ (pollPc = "read" /\ pollPc' = "next") => device_entries' = device_entries
      ]_vars

\* the device showed On and its read then decoded to Unknown: still On
C4_Witness ==
    /\ pollPc = "next"
    /\ pollAddr = "A"
    /\ "A" \in DOMAIN device_entries
    /\ device_entries["A"].power_state = "On"

\* C5: the upsert of a Discovered event for an address that has an entry
\* leaves that entry's power state as it is.
C5_UpsertKeepsPowerState ==
    [][(/\ consumer.kind = "Discovered"
        /\ consumer.pc = "name"
        /\ consumer'.pc = "handle"
        /\ consumer.addr \in DOMAIN device_entries)
       => device_entries'[consumer.addr].power_state
            = device_entries[consumer.addr].power_state]_vars

\* C6: the front end is never held in blocking_send by a full channel.
C6_EnqueueNeverBlocks ==
    ~(uiPc = "send" /\ ~send_ready(cmd_queue))

\* C7: after a failed discovery start no consumer is started.
C7_NoConsumerAfterFailedStart ==
    [][(cmdPc = "scan_stream" /\ ~scanOk) => consumers' = consumers]_vars

\* the error state that stands for a start result
ErrorFor(result) == IF result = "err" THEN "StartFailed" ELSE "None"

UiStep == uiPc' /= uiPc

ShownFor(target) == IF target = "On" THEN "Starting" ELSE target

CpsPcs == {"cps_lock", "cps_characteristic", "cps_write"}
\* a step of cmd_task in the execution of a ChangePowerState command
CpsStep == cmdPc \in CpsPcs /\ cmdPc' /= cmdPc

\* C10: no step of the execution of a ChangePowerState command changes the
\* Store, whether the handle is absent, the characteristic is missing, or
\* the write succeeds or fails; the step that ends the command releases
\* the lock and takes the dispatcher back to the channel.
C10_ChangePowerStateLeavesStore ==
    [][CpsStep =>
        /\ UNCHANGED <<device_entries, ble_devices, error_state>>
        /\ cmdPc' \in CpsPcs \cup {"recv"}
        /\ cmdPc' = "recv" => (lock' = "none" /\ cmd' = NoCmd /\ doneCount' = doneCount + 1)
      ]_vars

\* the write of an "on" command is pending while the entry shows Starting
C10_Witness ==
    /\ cmdPc = "cps_write"
    /\ cmd.state = "On"
    /\ cmd.addr \in DOMAIN device_entries
    /\ device_entries[cmd.addr].power_state = "Starting"

\* C11: an event of a superseded scan that is processed after the restart
\* cleared the maps leaves both maps as they are: a device that only the
\* earlier scan discovered is not put back.
C11_StaleEventsLeaveStore ==
    [][ (consumer.stale \/ consumer'.stale)
        => UNCHANGED <<device_entries, ble_devices>> ]_vars

\* C12: once the clear step of a scan start is done and before a result of
\* the new start is recorded, both maps are empty, no error is recorded and
\* no scan counts as active.
C12_ClearResetsFlags ==
    cmdPc = "scan_start"
        => /\ device_entries = EmptyMap
           /\ ble_devices = EmptyMap
           /\ error_state = "None"
           /\ ~scanner_active

\* C13: a power-state write of poll_task or a name update of an Updated
\* event for an address that has no entry leaves the Store as it is: no
\* entry, no handle, no error.  (An Updated event gets past the lookup only
\* with an entry, and its write keeps the key sets.)
C13_UpdateOfAbsentLeavesStore ==
    [][ /\ (pollPc = "write" /\ pollPc' = "next"
             /\ pollAddr \notin DOMAIN device_entries)
            => UNCHANGED storeVars
        /\ (consumer.kind # "Updated" /\ consumer'.kind = "Updated")
            => (consumer'.addr \in DOMAIN device_entries /\ UNCHANGED storeVars)
        /\ (consumer.kind = "Updated" /\ consumer'.kind # "Updated")
            => /\ DOMAIN device_entries' = DOMAIN device_entries
               /\ UNCHANGED <<ble_devices, error_state>>
      ]_vars

\* poll_task is about to write the state it read through a handle of its
\* copy, and a restart has removed the device meanwhile
C13_Witness ==
    /\ pollPc = "write"
    /\ pollAddr \in Addrs
    /\ pollAddr \notin DOMAIN device_entries

\* C14: an Updated event for a known device changes the name of that
\* entry and nothing else: its power state, the handles, the error state
\* and every other entry stay; so after Discovered(A) with "Base1" and no
\* telemetry, Updated(A) yields the new name with power state Unknown.
C14_UpdatedChangesOnlyName ==
    [][ (consumer.kind = "Updated" /\ consumer'.kind # "Updated")
        => LET a == consumer.addr IN
           /\ a \in DOMAIN device_entries
           /\ \E nm \in Names :
                 device_entries' = [device_entries EXCEPT ![a].name = nm]
           /\ device_entries'[a].power_state = device_entries[a].power_state
           /\ \A b \in DOMAIN device_entries \ {a} :
                 device_entries'[b] = device_entries[b]
           /\ UNCHANGED <<ble_devices, error_state>>
      ]_vars

\* the Updated event of A is being applied to the entry that Discovered
\* created ("Base1", Unknown) while B has an entry with a state that was read
C14_Witness ==
    /\ consumer.pc = "name"
    /\ consumer.kind = "Updated"
    /\ consumer.addr = "A"
    /\ "A" \in DOMAIN device_entries
    /\ device_entries["A"] = [name |-> "Base1", power_state |-> "Unknown"]
    /\ "B" \in DOMAIN device_entries
    /\ device_entries["B"].power_state = "On"

\* C15: in a poll cycle a failed characteristic lookup or read of one
\* device leaves the Store as it is and the devices still to be read in
\* the cycle as they are, and the loop goes on: the cycle ends and the next
\* one starts after the sleep.
C15_FailureSkipsOneDevice ==
    /\ [][ pollFailed' \notin {pollFailed, {}}
            => /\ pollPc \in {"characteristic", "read"}
               /\ pollPc' = "next"
               /\ pollDevices' = pollDevices
               /\ UNCHANGED storeVars
          ]_vars
    /\ (pollFailed # {}) ~> (pollPc = "sleep")
    /\ (pollPc = "sleep") ~> (pollPc = "snapshot")

\* the lookup or read of A failed in this cycle and the state read from B
\* in the same cycle is about to be written
C15_Witness ==
    /\ pollPc = "write"
    /\ pollAddr = "B"
    /\ pollFailed = {"A"}

\* C16: poll_task copies the handle map under the lock and has released
\* it before any lookup or read; it takes the lock again only for the
\* power-state write of one device and has released it before the I/O of
\* the next device: between its statements it never holds the lock.
C16_PollLocksOnlyToCopyAndWrite ==
    /\ [](lock # "poll")
    /\ [][ (pollPc = "snapshot" /\ pollPc' = "next")
            => /\ lock = "none" /\ lock' = "none"
               /\ pollDevices' = DOMAIN ble_devices
               /\ UNCHANGED storeVars
          ]_vars
    /\ [][ (pollPc = "write" /\ pollPc' = "next")
            => /\ lock = "none" /\ lock' = "none"
               /\ DOMAIN device_entries' = DOMAIN device_entries
               /\ \A b \in DOMAIN device_entries :
                     /\ device_entries'[b].name = device_entries[b].name
                     /\ b # pollAddr => device_entries'[b] = device_entries[b]
               /\ UNCHANGED <<ble_devices, error_state>>
          ]_vars

\* a read of poll_task is pending while the render loop holds the lock
C16_Witness ==
    /\ pollPc = "read"
    /\ lock = "ui"
    /\ uiPc = "render"

\* C17: decoding is total and follows the table: the one-byte payloads
\* 0x00, 0x01, 0x0B, 0x02, 0x09 give Sleep, On, On, Standby, Starting, and
\* every other payload (another byte, none, more than one) gives Unknown.
C17_DecodeMatchesTable ==
    codec_pc = "done"
        => /\ codec_out \in PowerStates
           /\ codec_out =
                CASE Len(codec_in) = 1 /\ codec_in[1] = 0 -> "Sleep"
                  [] Len(codec_in) = 1 /\ codec_in[1] \in {1, 11} -> "On"
                  [] Len(codec_in) = 1 /\ codec_in[1] = 2 -> "Standby"
                  [] Len(codec_in) = 1 /\ codec_in[1] = 9 -> "Starting"
                  [] OTHER -> "Unknown"

\* the payload 0x0B has been decoded
C17_Witness ==
    /\ codec_pc = "done"
    /\ codec_cmd = "-"
    /\ codec_in = <<11>>
    /\ codec_out = "On"

\* C18: for each of the commands On, Sleep, Standby, decoding the one-byte
\* payload that holds the command's byte gives the state of the same name.
C18_DecodeInvertsEncode ==
    (codec_pc = "done" /\ codec_cmd \in PowerStateCommands)
        => codec_out = codec_cmd

\* Standby has been encoded as 0x02 and decoded again
C18_Witness ==
    /\ codec_pc = "done"
    /\ codec_cmd = "Standby"
    /\ codec_in = <<2>>
    /\ codec_out = "Standby"

\* C19: the render loop and cmd_task cannot block each other: in no state
\* does the render loop hold the lock and wait to send on the full channel
\* while cmd_task, with a command received, waits for the lock.
C19_NoUiDispatcherDeadlock ==
    ~ ( /\ lock = "ui"
        /\ uiPc = "send"
        /\ ~send_ready(cmd_queue)
        /\ cmd # NoCmd
        /\ cmdPc \in {"scan_lock", "scan_result", "scan_stream", "cps_lock"} )

\* C20: the render loop sends a command only when the button's guard
\* holds in that frame: ChangePowerState(addr, target) only for an address
\* with an entry whose shown power state is not Unknown and is not the
\* target's (On only from Sleep or Standby), StartScan only while the
\* scanner reports no active scan; and what enters the queue is that command.
C20_EnqueueOnlyEnabled ==
    /\ [][ (uiPc = "render" /\ uiPc' = "send")
            => \/ /\ uiPending'.type = "StartScan"
                  /\ ~scanner_active
               \/ /\ uiPending'.type = "ChangePowerState"
                  /\ uiPending'.state \in PowerStateCommands
                  /\ uiPending'.addr \in DOMAIN device_entries
                  /\ LET shown == device_entries[uiPending'.addr].power_state IN
                       /\ shown # "Unknown"
                       /\ shown # uiPending'.state
                       /\ uiPending'.state = "On" => shown \in {"Sleep", "Standby"}
          ]_vars
    /\ [][ cmd_queue' # cmd_queue /\ Len(cmd_queue') >= Len(cmd_queue)
            => /\ uiPc = "send"
               /\ cmd_queue' = Append(cmd_queue, [uiPending EXCEPT !.seq = sentCount + 1])
          ]_vars

\* the "sleep" button of A, which showed another known state, was clicked
\* and its command is about to enter the queue
C20_Witness ==
    /\ uiPc = "send"
    /\ lock = "ui"
    /\ uiPending.type = "ChangePowerState"
    /\ uiPending.addr = "A"
    /\ uiPending.state = "Sleep"
    /\ "A" \in DOMAIN device_entries
    /\ send_ready(cmd_queue)

====
